---------------------------- MODULE Spec2Model ----------------------------
(***************************************************************************)
(* A model of package jsonobj (src/jsonobj.go): the intermediate JSON      *)
(* object with its path resolver (find), its Dynamic-to-Typed assignment   *)
(* (assign) and the four public operations Get, Set, Len and Export.       *)
(*                                                                         *)
(* Strings are sequences of one-character strings, so that strings.Split,  *)
(* strings.LastIndex and strconv.Atoi are computed as the code computes    *)
(* them.  Numbers are sign and magnitude bit strings (least significant    *)
(* bit first) in units of one half, so that the conversions of 8, 16, 32   *)
(* and 64 bit integers and of float32/float64 keep their width.            *)
(***************************************************************************)
EXTENDS Integers, Sequences, FiniteSets, TLC

VARIABLES
    intf,     \* JSON.intf: the unmarshaled document (a Dynamic Value)
    arch,     \* the build: how an out-of-range float-to-integer conversion ends
    op,       \* the public operation that was called, "idle" between two calls
    opPath,   \* its path argument
    opArg,    \* its other argument: Get's out (before the call), Set's in, Export's indent
    before,   \* the document before the call
    opErr,    \* what the call returned: "nil", an error, or a panic
    dest,     \* Get: the destination variable after the call
    opRet,    \* Len: the returned length; Export: the returned bytes
    locator,  \* Set: what find(path, true) returned to it
    nsets     \* number of Set calls made so far

vars == <<intf, arch, op, opPath, opArg, before, opErr, dest, opRet, locator, nsets>>

-----------------------------------------------------------------------------
(* Bounds *)

\* Set calls per behaviour.
MaxSets == 1

-----------------------------------------------------------------------------
(* Strings *)

\* strings.Split(s, sep) for a one-character sep: the fields between the
\* separators; always at least one field (the empty string gives <<"">>).
RECURSIVE SplitFrom(_, _, _, _)
SplitFrom(s, sep, i, cur) ==
    IF i > Len(s) THEN <<cur>>
    ELSE IF s[i] = sep THEN <<cur>> \o SplitFrom(s, sep, i + 1, <<>>)
    ELSE SplitFrom(s, sep, i + 1, Append(cur, s[i]))

Split(s, sep) == SplitFrom(s, sep, 1, <<>>)

\* strings.LastIndex(s, c) for a one-character c: 0-based, -1 when absent.
LastIndex(s, c) ==
    LET hits == {i \in 1..Len(s) : s[i] = c}
    IN  IF hits = {} THEN -1 ELSE (CHOOSE i \in hits : \A j \in hits : j <= i) - 1

\* s[a:b] of Go (0-based, half open).
Slice(s, a, b) == SubSeq(s, a + 1, b)

Digits == <<"0", "1", "2", "3", "4", "5", "6", "7", "8", "9">>

IsDigit(c) == \E d \in 1..10 : Digits[d] = c

DigitVal(c) == (CHOOSE d \in 1..10 : Digits[d] = c) - 1

RECURSIVE DecVal(_)
DecVal(ds) == IF ds = <<>> THEN 0
              ELSE 10 * DecVal(SubSeq(ds, 1, Len(ds) - 1)) + DigitVal(ds[Len(ds)])

\* strconv.Atoi(s): an optional sign, then one or more decimal digits.
\* (The index literals of the modelled paths have one or two digits, so the
\* range error of a literal beyond int does not arise.)
Atoi(s) ==
    LET signed == s # <<>> /\ s[1] \in {"+", "-"}
        ds     == IF signed THEN Tail(s) ELSE s
    IN  IF ds = <<>> \/ \E i \in 1..Len(ds) : ~IsDigit(ds[i])
        THEN [ok |-> FALSE, val |-> 0]
        ELSE [ok |-> TRUE,
              val |-> IF signed /\ s[1] = "-" THEN 0 - DecVal(ds) ELSE DecVal(ds)]

Upper == <<"A", "B", "E", "N", "M", "X">>
Lower == <<"a", "b", "e", "n", "m", "x">>

ToLower(c) == IF \E i \in 1..Len(Upper) : Upper[i] = c
              THEN Lower[CHOOSE i \in 1..Len(Upper) : Upper[i] = c]
              ELSE c

\* strings.EqualFold(s, t)
EqualFold(s, t) ==
    /\ Len(s) = Len(t)
    /\ \A i \in 1..Len(s) : ToLower(s[i]) = ToLower(t[i])

-----------------------------------------------------------------------------
(* Numbers *)

\* A number is [neg, bits]: its sign and the bits of its magnitude in units of
\* one half, least significant first, without leading zeros: 3 is 110b halves,
\* 3.5 is 111b halves.  A float64 of JSON is such a number whose bit string
\* spans at most 53 significant bits.

RECURSIVE Norm(_)
Norm(bits) == IF bits # <<>> /\ bits[Len(bits)] = 0
              THEN Norm(SubSeq(bits, 1, Len(bits) - 1))
              ELSE bits

Zeros(k) == [i \in 1..k |-> 0]
Ones(k)  == [i \in 1..k |-> 1]

RECURSIVE NatBits(_)
NatBits(k) == IF k = 0 THEN <<>> ELSE <<k % 2>> \o NatBits(k \div 2)

\* The whole number k, and k + 1/2 for k >= 0.
Whole(k)    == [neg |-> k < 0, bits |-> IF k = 0 THEN <<>>
                                        ELSE <<0>> \o NatBits(IF k < 0 THEN 0 - k ELSE k)]
AndHalf(k)  == [neg |-> FALSE, bits |-> <<1>> \o NatBits(k)]
MinusHalf   == [neg |-> TRUE, bits |-> <<1>>]
MinusZero   == [neg |-> TRUE, bits |-> <<>>]
\* 2^e, -(2^e), 2^e - 1 and 2^e + 2^f (f < e) for exponents beyond 32-bit integers.
PowTwo(e)      == [neg |-> FALSE, bits |-> Zeros(e + 1) \o <<1>>]
NegPowTwo(e)   == [neg |-> TRUE, bits |-> Zeros(e + 1) \o <<1>>]
PowTwoLess1(e) == [neg |-> FALSE, bits |-> <<0>> \o Ones(e)]
PowTwoPlus(e, f) == [neg |-> FALSE, bits |-> Zeros(f + 1) \o <<1>> \o Zeros(e - f - 1) \o <<1>>]

\* a == b as floating point numbers compare (-0 == 0).
NumEq(a, b) == a.bits = b.bits /\ (a.neg = b.neg \/ a.bits = <<>>)

\* bits + 1
RECURSIVE Inc(_)
Inc(bits) == IF bits = <<>> THEN <<1>>
             ELSE IF bits[1] = 0 THEN <<1>> \o Tail(bits)
             ELSE <<0>> \o Inc(Tail(bits))

\* The magnitude rounded to p significant bits, ties to even: the conversion
\* to a floating point type with a p bit significand.
RoundTo(bits, p) ==
    IF Len(bits) <= p THEN bits
    ELSE LET drop   == Len(bits) - p
             kept   == SubSeq(bits, drop + 1, Len(bits))
             guard  == bits[drop]
             sticky == \E i \in 1..(drop - 1) : bits[i] = 1
             up     == guard = 1 /\ (sticky \/ kept[1] = 1)
         IN  Zeros(drop) \o (IF up THEN Inc(kept) ELSE kept)

\* float64(x) of an integer x, and float64(float32(v)).
Float64Of(x) == [neg |-> x.neg, bits |-> RoundTo(x.bits, 53)]
Float32Round(v) == [neg |-> v.neg, bits |-> RoundTo(v.bits, 24)]

\* The low w bits of a magnitude, and the w bit two's complement of it.
LowBits(bits, w) == Norm(SubSeq(bits, 1, IF Len(bits) < w THEN Len(bits) ELSE w))

RECURSIVE Twos(_, _, _)
\* invert the w bits from position i on and add the carry c
Twos(bits, w, c) ==
    IF w = 0 THEN <<>>
    ELSE LET b == IF bits = <<>> THEN 0 ELSE bits[1]
             s == (1 - b) + c
         IN  <<s % 2>> \o Twos(IF bits = <<>> THEN <<>> ELSE Tail(bits), w - 1, s \div 2)

TwosNeg(bits, w) == Norm(Twos(LowBits(bits, w), w, 1))

\* The integer [neg, mag] (mag in units of one) kept to w bits and read as a
\* signed or unsigned w bit integer: what a narrowing integer conversion does.
WrapInt(neg, mag, w, signed) ==
    LET pat == IF neg THEN TwosNeg(mag, w) ELSE LowBits(mag, w)
        top == Len(pat) = w
    IN  IF signed /\ top THEN [neg |-> TRUE, mag |-> TwosNeg(pat, w)]
        ELSE [neg |-> FALSE, mag |-> pat]

\* Whether the integer [neg, mag] is a value of the w bit integer type.
InRange(neg, mag, w, signed) ==
    IF signed
    THEN \/ Len(mag) <= w - 1
         \/ neg /\ mag = Zeros(w - 1) \o <<1>>
    ELSE (~neg \/ mag = <<>>) /\ Len(mag) <= w

\* The largest or smallest value of the type, by the sign of the operand.
Saturated(neg, w, signed) ==
    IF signed
    THEN IF neg THEN [neg |-> TRUE, mag |-> Zeros(w - 1) \o <<1>>]
                ELSE [neg |-> FALSE, mag |-> Ones(w - 1)]
    ELSE IF neg THEN [neg |-> FALSE, mag |-> <<>>]
                ELSE [neg |-> FALSE, mag |-> Ones(w)]

Max(a, b) == IF a > b THEN a ELSE b

\* T(v) for a float64 v and a w bit integer type T.  The fraction is
\* discarded.  When the whole part is not a value of T the result is
\* implementation-dependent (The Go Programming Language Specification,
\* Conversions); build is one of the two families of builds:
\*   "trunc": the value converted to int64 (the "integer indefinite" -2^63
\*            when it does not fit), kept to w bits;
\*   "sat":   the value saturated at the bounds of the machine conversion
\*            (32 bits for the narrow types), kept to w bits.
CastInt(v, w, signed, build) ==
    LET mag == IF v.bits = <<>> THEN <<>> ELSE Tail(v.bits)
        neg == v.neg /\ mag # <<>>
        r == IF InRange(neg, mag, w, signed) THEN [neg |-> neg, mag |-> mag]
             ELSE IF build = "trunc"
             THEN IF InRange(neg, mag, 64, TRUE)
                  THEN WrapInt(neg, mag, w, signed)
                  ELSE WrapInt(TRUE, Zeros(63) \o <<1>>, w, signed)
             ELSE LET m == Max(w, 32)
                      s == IF InRange(neg, mag, m, signed) THEN [neg |-> neg, mag |-> mag]
                           ELSE Saturated(neg, m, signed)
                  IN  WrapInt(s.neg, s.mag, w, signed)
    IN  [neg |-> r.neg /\ r.mag # <<>>,
         bits |-> IF r.mag = <<>> THEN <<>> ELSE <<0>> \o r.mag]

-----------------------------------------------------------------------------
(* Dynamic Values: what json.Unmarshal stores in an interface{} *)

\* nil, bool, float64, string, []interface{} and map[string]interface{}.
\* A value is [t, b, n, s, a, m]: its shape t and, by the shape, the bool b, the
\* number n, the string s, the elements a or the map m.
Null      == [t |-> "Null",   b |-> FALSE, n |-> Whole(0), s |-> <<>>, a |-> <<>>, m |-> <<>>]
Bool(b)   == [Null EXCEPT !.t = "Bool",   !.b = b]
Number(n) == [Null EXCEPT !.t = "Number", !.n = n]
String(s) == [Null EXCEPT !.t = "String", !.s = s]
Array(a)  == [Null EXCEPT !.t = "Array",  !.a = a]
Object(m) == [Null EXCEPT !.t = "Object", !.m = m]

\* The map with the one key k, and the map m with m[k] = x.
OneKey(k, x) == [kk \in {k} |-> x]
WithKey(m, k, x) == [kk \in DOMAIN m \cup {k} |-> IF kk = k THEN x ELSE m[kk]]
WithoutKey(m, k) == [kk \in DOMAIN m \ {k} |-> m[kk]]

-----------------------------------------------------------------------------
(* find: the path resolver *)

\* The reflect.Value find returns as the key: the zero Value, a string or an int.
NoKey     == [kind |-> "Invalid", s |-> <<>>, i |-> 0]
StrKey(s) == [kind |-> "String",  s |-> s,    i |-> 0]
IntKey(i) == [kind |-> "Int",     s |-> <<>>, i |-> i]

\* What find returns.  val is result; ref is the way from j.intf to result
\* (a map or a slice returned by find shares its storage with the document,
\* which is how Set writes into the document through it).
Found(key, ref, val) == [err |-> "nil", key |-> key, ref |-> ref, val |-> val]
FindErr(e)           == [err |-> e, key |-> NoKey, ref |-> <<>>, val |-> Null]

\* parent && keyi == kl-1, for the keyi-th of kl keys (counted from 1 here).
IsLastOffByOne(parent, keyi, kl) == parent /\ keyi = kl - 1
IsLast(parent, keyi, kl) == parent /\ keyi = kl

\* The bounds check of a bare index "[i]" on the slice si, line 133.
BareIndexErr(i, si) == IF i < 0 \/ i >= Len(si) THEN "ErrOutOfRange" ELSE "nil"

\* The bounds check of "f[i]" on the slice sv, line 163.
FieldIndexErrNotFound(i, sv) == IF i >= Len(sv) THEN "ErrNotFound" ELSE "nil"
FieldIndexErr(i, sv) == IF i >= Len(sv) THEN "ErrOutOfRange" ELSE "nil"

\* The loop of find over keys from keys[keyi] on; i is -1 on entry to each turn.
RECURSIVE FindLoop(_, _, _, _, _)
FindLoop(keys, keyi, result, ref, parent) ==
    IF keyi > Len(keys) THEN Found(NoKey, ref, result)
    ELSE
    LET kv   == keys[keyi]
        a    == LastIndex(kv, "[")
        b    == LastIndex(kv, "]")
        num  == IF a >= 0 /\ b > a THEN Atoi(Slice(kv, a + 1, b)) ELSE [ok |-> FALSE, val |-> 0]
        i    == IF a >= 0 THEN num.val ELSE -1
        keyv == IF a >= 0 THEN Slice(kv, 0, a) ELSE kv
        last == IsLast(parent, keyi, Len(keys))
    IN  IF a >= 0 /\ b <= a THEN FindErr("ErrInvalidPath")
        ELSE IF a >= 0 /\ ~num.ok THEN FindErr("ErrInvalidPath")
        ELSE IF keyv = <<>>
        THEN IF result.t # "Array" THEN FindErr("ErrNotFound")
             ELSE IF BareIndexErr(i, result.a) # "nil" THEN FindErr(BareIndexErr(i, result.a))
             ELSE IF last THEN Found(IntKey(i), ref, result)
             ELSE FindLoop(keys, keyi + 1, result.a[i + 1], Append(ref, IntKey(i)), parent)
        ELSE IF result.t # "Object" THEN FindErr("ErrNotFound")
             ELSE IF i < 0 /\ last THEN Found(StrKey(keyv), ref, result)
             ELSE IF keyv \notin DOMAIN result.m THEN FindErr("ErrNotFound")
             ELSE LET iv == result.m[keyv]
                      r1 == Append(ref, StrKey(keyv))
                  IN  IF i > -1
                      THEN IF iv.t # "Array" THEN FindErr("ErrNotFound")
                           ELSE IF FieldIndexErr(i, iv.a) # "nil" THEN FindErr(FieldIndexErr(i, iv.a))
                           ELSE IF last THEN Found(IntKey(i), r1, iv)
                           ELSE FindLoop(keys, keyi + 1, iv.a[i + 1], Append(r1, IntKey(i)), parent)
                      ELSE FindLoop(keys, keyi + 1, iv, r1, parent)

find(j, p, parent) ==
    LET keys == Split(p, ".")
    IN  IF Len(keys) = 0 THEN FindErr("ErrInvalidPath")
        ELSE IF \E k \in 1..Len(keys) : keys[k] = <<>> THEN FindErr("ErrInvalidPath")
        ELSE FindLoop(keys, 1, j, <<>>, parent)

\* The document after the container at ref has been changed to c in place.
RECURSIVE Store(_, _, _)
Store(j, ref, c) ==
    IF ref = <<>> THEN c
    ELSE IF ref[1].kind = "String"
    THEN Object([j.m EXCEPT ![ref[1].s] = Store(j.m[ref[1].s], Tail(ref), c)])
    ELSE Array([j.a EXCEPT ![ref[1].i + 1] = Store(j.a[ref[1].i + 1], Tail(ref), c)])

-----------------------------------------------------------------------------
(* Typed values: the Go variables given to Get and Set *)

\* A type is [kind, elem, fields]: its reflect.Kind, the element type of a
\* slice (as a one element sequence) and the fields of a struct.  A struct
\* field is [name, tag, exported, ty], tag being the value of its json tag.
Basic(kind)      == [kind |-> kind, elem |-> <<>>, fields |-> <<>>]
SliceOf(ty)      == [kind |-> "Slice", elem |-> <<ty>>, fields |-> <<>>]
StructOf(fields) == [kind |-> "Struct", elem |-> <<>>, fields |-> fields]
Field(name, tag, ty) == [name |-> name, tag |-> tag, exported |-> TRUE, ty |-> ty]
Unexported(name, ty) == [name |-> name, tag |-> <<>>, exported |-> FALSE, ty |-> ty]

IntKinds  == {"Int", "Int8", "Int16", "Int32", "Int64"}
UintKinds == {"Uint", "Uint8", "Uint16", "Uint32", "Uint64"}
NumKinds  == IntKinds \cup UintKinds \cup {"Float32", "Float64"}

\* The width of an integer kind (int and uint are those of a 64 bit platform).
Width(kind) == CASE kind \in {"Int8", "Uint8"}   -> 8
                 [] kind \in {"Int16", "Uint16"} -> 16
                 [] kind \in {"Int32", "Uint32"} -> 32
                 [] OTHER                        -> 64

\* A typed value is [ty, b, n, s, items, isnil]: its type and, by the kind,
\* the bool b, the number n, the string s, the elements of a slice or the
\* field values of a struct (items); isnil holds of a nil slice, pointer or
\* interface.
RECURSIVE Zero(_)
Zero(ty) ==
    [ty |-> ty, b |-> FALSE, n |-> Whole(0), s |-> <<>>,
     items |-> IF ty.kind = "Struct"
               THEN [i \in 1..Len(ty.fields) |-> Zero(ty.fields[i].ty)]
               ELSE <<>>,
     isnil |-> ty.kind \notin {"Bool", "String", "Struct", "Chan"} \cup NumKinds]

BoolVar(b)       == [Zero(Basic("Bool")) EXCEPT !.b = b]
StringVar(s)     == [Zero(Basic("String")) EXCEPT !.s = s]
NumVar(kind, n)  == [Zero(Basic(kind)) EXCEPT !.n = n]
SliceVar(ty, xs) == [Zero(SliceOf(ty)) EXCEPT !.items = xs, !.isnil = FALSE]
StructVar(ty, xs) == [Zero(ty) EXCEPT !.items = xs]

\* The zero reflect.Value as a destination: the Elem() of a nil pointer.
InvalidOut == Zero(Basic("Invalid"))

-----------------------------------------------------------------------------
(* assign: Dynamic to Typed *)

\* A reflect.Value holding a Dynamic Value: valid is IsValid(); iface says
\* that its Kind is Interface, as for every value that Index or MapIndex
\* takes out of a []interface{} or a map[string]interface{}.
ValueOf(x)   == [valid |-> x.t # "Null", iface |-> FALSE, val |-> x]
ElemValue(x) == [valid |-> TRUE, iface |-> TRUE, val |-> x]
ByteValue(c) == [valid |-> TRUE, iface |-> FALSE, val |-> [Null EXCEPT !.t = "Uint8", !.s = <<c>>]]

\* in.Len() panics unless in is a slice, a map or a string.
HasLen(in) == ~in.iface /\ in.val.t \in {"Array", "Object", "String"}
InLen(in)  == CASE in.val.t = "Object" -> Cardinality(DOMAIN in.val.m)
                [] in.val.t = "Array"  -> Len(in.val.a)
                [] OTHER               -> Len(in.val.s)
\* in.Index(i) panics on a map.
HasIndex(in) == in.val.t \in {"Array", "String"}
InIndex(in, i) == IF in.val.t = "Array" THEN ElemValue(in.val.a[i + 1])
                  ELSE ByteValue(in.val.s[i + 1])

Done(e, o) == [err |-> e, out |-> o]

\* A panic of package reflect (a method called on a Value of the wrong
\* Kind or on the zero Value), and the panic of Set itself, line 422.
ReflectPanic == "panic: reflect"
SetPanic     == "panic: this shouldn't happen: parent value not map or slice"
Panics       == {ReflectPanic, SetPanic}

\* The match of a map key with a struct field, lines 207-214.
KeyMatches(key, fld) ==
    LET tags == Split(fld.tag, ",")
    IN  IF Len(tags) > 0 THEN key = tags[1] ELSE EqualFold(key, fld.name)

\* The Number in read as the numeric kind: the cast, the check for a
\* rounding error, the write.
AssignNumber(v, out) ==
    LET kind == out.ty.kind
        cast == IF kind = "Float64" THEN v
                ELSE IF kind = "Float32" THEN Float32Round(v)
                ELSE CastInt(v, Width(kind), kind \in IntKinds, arch)
        back == IF kind \in {"Float64", "Float32"} THEN cast ELSE Float64Of(cast)
    IN  IF kind # "Float64" /\ ~NumEq(v, back) THEN Done("ErrTruncate", out)
        ELSE Done("nil", [out EXCEPT !.n = cast])

RECURSIVE assign(_, _)
RECURSIVE AssignElems(_, _, _, _)
RECURSIVE AssignFields(_, _, _)

assign(in, out) ==
    IF ~in.valid THEN Done("nil", out)
    ELSE CASE out.ty.kind = "Slice" ->
                IF ~HasLen(in) THEN Done(ReflectPanic, out)
                ELSE LET r == AssignElems(in, out.ty.elem[1], 0, <<>>)
                     IN  IF r.err # "nil" THEN Done(r.err, out)
                         ELSE Done("nil", [out EXCEPT !.items = r.out, !.isnil = FALSE])
           [] out.ty.kind = "Struct" ->
                IF in.iface \/ in.val.t # "Object" THEN Done(ReflectPanic, out)
                ELSE AssignFields(in, out, 1)
           [] out.ty.kind = "Bool" ->
                IF in.val.t # "Bool" THEN Done("ErrInvalidOut", out)
                ELSE Done("nil", [out EXCEPT !.b = in.val.b])
           [] out.ty.kind = "String" ->
                IF in.val.t # "String" THEN Done("ErrInvalidOut", out)
                ELSE Done("nil", [out EXCEPT !.s = in.val.s])
           [] out.ty.kind \in NumKinds ->
                IF in.val.t # "Number" THEN Done("ErrInvalidOut", out)
                ELSE AssignNumber(in.val.n, out)
           [] OTHER -> Done("nil", out)

\* The loop of the Slice case from element i on; sl is the new slice so far.
AssignElems(in, elemTy, i, sl) ==
    IF i >= InLen(in) THEN Done("nil", sl)
    ELSE IF ~HasIndex(in) THEN Done(ReflectPanic, sl)
    ELSE LET r == assign(InIndex(in, i), Zero(elemTy))
         IN  IF r.err # "nil" THEN Done(r.err, sl)
             ELSE AssignElems(in, elemTy, i + 1, Append(sl, r.out))

\* The loop of the Struct case from field i on; the fields are written in place.
AssignFields(in, out, i) ==
    IF i > Len(out.ty.fields) THEN Done("nil", out)
    ELSE LET fld  == out.ty.fields[i]
             hits == {k \in DOMAIN in.val.m : KeyMatches(k, fld)}
         IN  IF ~fld.exported \/ hits = {} THEN AssignFields(in, out, i + 1)
             ELSE LET k == CHOOSE k \in hits : TRUE
                      r == assign(ElemValue(in.val.m[k]), out.items[i])
                      o == [out EXCEPT !.items[i] = r.out]
                  IN  IF r.err # "nil" THEN Done(r.err, o)
                      ELSE AssignFields(in, o, i + 1)

-----------------------------------------------------------------------------
(* Get *)

\* The out argument of Get: nil, a value that is no pointer, a nil pointer,
\* or a pointer to the variable var.
OutArg(how, var) == [how |-> how, var |-> var]

Get(j, p, o) ==
    IF o.how \in {"nil", "value"} THEN Done("ErrInvalidOut", o.var)
    ELSE LET f == find(j, p, FALSE)
         IN  IF f.err # "nil" THEN Done(f.err, o.var)
             ELSE IF o.how = "nilptr"
             THEN Done(assign(ValueOf(f.val), InvalidOut).err, o.var)
             ELSE assign(ValueOf(f.val), o.var)

-----------------------------------------------------------------------------
(* Set *)

\* enc.Encode(in) followed by json.Unmarshal of the bytes: the Dynamic Value
\* the encoding of a typed value parses back to.  A number comes back as the
\* nearest float64, a nil slice or pointer as null, a struct as the object of
\* its exported fields under their json names; a channel cannot be encoded.
EncErr(e) == [err |-> e, val |-> Null]
EncOk(x)  == [err |-> "nil", val |-> x]

JSONName(fld) == LET tags == Split(fld.tag, ",")
                 IN  IF tags[1] # <<>> THEN tags[1] ELSE fld.name

RECURSIVE Encode(_)
RECURSIVE EncodeItems(_, _)
RECURSIVE EncodeFields(_, _, _)

Encode(x) ==
    CASE x.ty.kind = "Bool"   -> EncOk(Bool(x.b))
      [] x.ty.kind = "String" -> EncOk(String(x.s))
      [] x.ty.kind \in NumKinds -> EncOk(Number(Float64Of(x.n)))
      [] x.ty.kind = "Slice"  ->
            IF x.isnil THEN EncOk(Null)
            ELSE LET r == EncodeItems(x.items, 1)
                 IN  IF r.err # "nil" THEN r ELSE EncOk(Array(r.val))
      [] x.ty.kind = "Struct" ->
            LET r == EncodeFields(x, 1, <<>>)
            IN  IF r.err # "nil" THEN r ELSE EncOk(Object(r.val))
      [] x.ty.kind \in {"Ptr", "Interface"} -> EncOk(Null)
      [] OTHER -> EncErr("UnsupportedTypeError")

EncodeItems(items, i) ==
    IF i > Len(items) THEN EncOk(<<>>)
    ELSE LET r    == Encode(items[i])
             rest == EncodeItems(items, i + 1)
         IN  IF r.err # "nil" THEN r
             ELSE IF rest.err # "nil" THEN rest
             ELSE EncOk(<<r.val>> \o rest.val)

EncodeFields(x, i, m) ==
    IF i > Len(x.ty.fields) THEN EncOk(m)
    ELSE LET fld == x.ty.fields[i]
             r   == Encode(x.items[i])
         IN  IF ~fld.exported \/ fld.tag = <<"-">> THEN EncodeFields(x, i + 1, m)
             ELSE IF r.err # "nil" THEN r
             ELSE EncodeFields(x, i + 1, WithKey(m, JSONName(fld), r.val))

NotCalled == FindErr("not called")

SetDone(e, j, f) == [err |-> e, intf |-> j, f |-> f]

\* tgtval.SetMapIndex(key, reflect.ValueOf(ifc)): the zero Value, which is
\* what reflect.ValueOf gives for a nil ifc, deletes the key.
SetMapIndexFresh(m, k, ifc) == IF ifc.t = "Null" THEN <<>> ELSE OneKey(k, ifc)
SetMapIndex(m, k, ifc) == IF ifc.t = "Null" THEN WithoutKey(m, k) ELSE WithKey(m, k, ifc)

Set(j, p, in) ==
    IF in.ty.kind = "Interface" THEN SetDone("ErrInvalidIn", j, NotCalled)
    ELSE LET f == find(j, p, TRUE)
             e == Encode(in)
         IN  IF f.err # "nil" THEN SetDone(f.err, j, f)
             ELSE IF e.err # "nil" THEN SetDone(e.err, j, f)
             ELSE IF f.val.t = "Object"
             THEN SetDone("nil", Store(j, f.ref, Object(SetMapIndex(f.val.m, f.key.s, e.val))), f)
             ELSE IF f.val.t = "Array"
             THEN \* Value.Set of the zero Value panics
                  IF e.val.t = "Null" THEN SetDone(ReflectPanic, j, f)
                  ELSE SetDone("nil", Store(j, f.ref,
                                   Array([f.val.a EXCEPT ![f.key.i + 1] = e.val])), f)
             ELSE SetDone(SetPanic, j, f)

-----------------------------------------------------------------------------
(* Len *)

LenOf(j, p) ==
    LET f == find(j, p, FALSE)
    IN  IF f.err # "nil" THEN [n |-> -1, err |-> f.err]
        ELSE IF f.val.t # "Array" THEN [n |-> -1, err |-> "ErrInvalidPath"]
        ELSE [n |-> Len(f.val.a), err |-> "nil"]

-----------------------------------------------------------------------------
(* Export *)

\* The characters of the modelled strings in byte order.
ByteOrder == <<"\"", "+", ",", "-", ".", "0", "1", "2", "5", "9", "A", "B", "E", "M", "N",
               "X", "Z", "[", "]", "a", "b", "c", "d", "e", "m", "n", "r", "t", "x">>

Rank(c) == CHOOSE i \in 1..Len(ByteOrder) : ByteOrder[i] = c

RECURSIVE Less(_, _)
Less(s, u) == IF u = <<>> THEN FALSE
              ELSE IF s = <<>> THEN TRUE
              ELSE IF s[1] # u[1] THEN Rank(s[1]) < Rank(u[1])
              ELSE Less(Tail(s), Tail(u))

\* The keys of a map in the order json.Marshal writes them: sorted.
RECURSIVE SortedKeys(_)
SortedKeys(ks) ==
    IF ks = {} THEN <<>>
    ELSE LET k == CHOOSE k \in ks : \A o \in ks \ {k} : Less(k, o)
         IN  <<k>> \o SortedKeys(ks \ {k})

RECURSIVE Repeat(_, _)
Repeat(s, n) == IF n = 0 THEN <<>> ELSE s \o Repeat(s, n - 1)

NewLine(indent, depth) == IF indent = <<>> THEN <<>> ELSE <<"\n">> \o Repeat(indent, depth)

RECURSIVE BitChars(_)
BitChars(bits) == IF bits = <<>> THEN <<>>
                  ELSE BitChars(Tail(bits)) \o <<IF bits[1] = 1 THEN "1" ELSE "0">>

\* The text of a number: its sign, the digits of its whole part (written
\* here in base two) and its fraction.
FormatNum(n) ==
    LET whole == IF n.bits = <<>> THEN <<>> ELSE Tail(n.bits)
    IN  (IF n.neg THEN <<"-">> ELSE <<>>)
        \o (IF whole = <<>> THEN <<"0">> ELSE BitChars(whole))
        \o (IF n.bits # <<>> /\ n.bits[1] = 1 THEN <<".", "5">> ELSE <<>>)

Quote(s) == <<"\"">> \o s \o <<"\"">>

RECURSIVE Marshal(_, _, _)
RECURSIVE MarshalItems(_, _, _, _)
RECURSIVE MarshalKeys(_, _, _, _, _)

Marshal(x, indent, depth) ==
    CASE x.t = "Null"   -> <<"n", "u", "l", "l">>
      [] x.t = "Bool"   -> IF x.b THEN <<"t", "r", "u", "e">> ELSE <<"f", "a", "l", "s", "e">>
      [] x.t = "Number" -> FormatNum(x.n)
      [] x.t = "String" -> Quote(x.s)
      [] x.t = "Array"  ->
            IF x.a = <<>> THEN <<"[", "]">>
            ELSE <<"[">> \o MarshalItems(x.a, 1, indent, depth + 1)
                 \o NewLine(indent, depth) \o <<"]">>
      [] x.t = "Object" ->
            IF DOMAIN x.m = {} THEN <<"{", "}">>
            ELSE <<"{">> \o MarshalKeys(x.m, SortedKeys(DOMAIN x.m), 1, indent, depth + 1)
                 \o NewLine(indent, depth) \o <<"}">>

MarshalItems(a, i, indent, depth) ==
    IF i > Len(a) THEN <<>>
    ELSE (IF i > 1 THEN <<",">> ELSE <<>>) \o NewLine(indent, depth)
         \o Marshal(a[i], indent, depth) \o MarshalItems(a, i + 1, indent, depth)

MarshalKeys(m, ks, i, indent, depth) ==
    IF i > Len(ks) THEN <<>>
    ELSE (IF i > 1 THEN <<",">> ELSE <<>>) \o NewLine(indent, depth)
         \o Quote(ks[i]) \o <<":">> \o (IF indent = <<>> THEN <<>> ELSE <<" ">>)
         \o Marshal(m[ks[i]], indent, depth) \o MarshalKeys(m, ks, i + 1, indent, depth)

\* json.Marshal or json.MarshalIndent of a document that json.Unmarshal or
\* Set built never fails.
Export(j, indent) == [bytes |-> Marshal(j, indent, 0), err |-> "nil"]

-----------------------------------------------------------------------------
(* The documents, paths and arguments the operations are called with *)

TBool    == Basic("Bool")
TString  == Basic("String")
TFloat64 == Basic("Float64")
TIface   == Basic("Interface")
TPtr     == Basic("Ptr")

\* {"a":[3,{"b":"X"}],"n":null}
DocObject ==
    Object([k \in {<<"a">>, <<"n">>} |->
        IF k = <<"a">>
        THEN Array(<<Number(Whole(3)), Object(OneKey(<<"b">>, String(<<"X">>)))>>)
        ELSE Null])

\* [true,[null,3.5]]
DocArray == Array(<<Bool(TRUE), Array(<<Null, Number(AndHalf(3))>>)>>)

\* "X"
DocString == String(<<"X">>)

Docs == {DocObject, DocArray, DocString}

\* The paths of the malformed path list of the specification:
\* "", ".", "a..b", "a[x]", "a[-1]", "[1]extra".
MalformedPaths ==
    { <<>>, <<".">>, <<"a", ".", ".", "b">>, <<"a", "[", "x", "]">>,
      <<"a", "[", "-", "1", "]">>, <<"[", "1", "]", "e", "x", "t", "r", "a">> }

\* Further paths outside the path grammar: "a[1", "a]", "a[+1]", "[-1]".
OtherBadPaths ==
    { <<"a", "[", "1">>, <<"a", "]">>, <<"a", "[", "+", "1", "]">>, <<"[", "-", "1", "]">> }

\* Paths of the path grammar: "a", "n", "c", "a[0]", "a[1]", "a[2]", "a[12]",
\* "a[1].b", "n.a", "[0]", "[1]", "[2]", "[1].[0]", "[1].[1]", "[1].[2]".
GoodPaths ==
    { <<"a">>, <<"n">>, <<"c">>,
      <<"a", "[", "0", "]">>, <<"a", "[", "1", "]">>, <<"a", "[", "2", "]">>,
      <<"a", "[", "1", "2", "]">>,
      <<"a", "[", "1", "]", ".", "b">>, <<"n", ".", "a">>,
      <<"[", "0", "]">>, <<"[", "1", "]">>, <<"[", "2", "]">>,
      <<"[", "1", "]", ".", "[", "0", "]">>, <<"[", "1", "]", ".", "[", "1", "]">>,
      <<"[", "1", "]", ".", "[", "2", "]">> }

Paths == MalformedPaths \cup OtherBadPaths \cup GoodPaths

\* struct { Name string }
TNameOnly == StructOf(<<Field(<<"N", "a", "m", "e">>, <<>>, TString)>>)

\* struct { Name string; B bool `json:"b"` }, a struct given to Set as in TestSet1
TInTyp == StructOf(<<Field(<<"N", "a", "m", "e">>, <<>>, TString),
                     Field(<<"B">>, <<"b">>, TBool)>>)

\* The in arguments of Set: nil, "Z", int64(2^53+1), (*int)(nil),
\* the struct {"Z", true}, []bool{true}, make(chan int).
Ins ==
    { Zero(TIface),
      StringVar(<<"Z">>),
      NumVar("Int64", PowTwoPlus(53, 0)),
      Zero(TPtr),
      StructVar(TInTyp, <<StringVar(<<"Z">>), BoolVar(TRUE)>>),
      SliceVar(TBool, <<BoolVar(TRUE)>>),
      Zero(Basic("Chan")) }

\* The out arguments of Get: (*int)(nil), and pointers to variables of the
\* kinds below, each holding a value of its own before the call.
Outs ==
    { OutArg("nilptr", InvalidOut),
      OutArg("ptr", BoolVar(FALSE)),
      OutArg("ptr", StringVar(<<"Z">>)),
      OutArg("ptr", NumVar("Float64", Whole(9))),
      OutArg("ptr", Zero(TIface)),
      OutArg("ptr", Zero(TPtr)),
      OutArg("ptr", Zero(SliceOf(TFloat64))) }

Indents == {<<>>, <<" ">>}

Builds == {"trunc", "sat"}

-----------------------------------------------------------------------------
(* The state machine *)

\* The caller is between two calls: after Unmarshal, and once it has read
\* what the last call returned.
Idle == op = "idle"

NoCall ==
    /\ opPath = <<>>
    /\ opArg = <<>>
    /\ before = intf
    /\ opErr = "nil"
    /\ dest = InvalidOut
    /\ opRet = <<>>
    /\ locator = NotCalled

Init ==
    /\ intf \in Docs
    /\ arch \in Builds
    /\ op = "idle"
    /\ nsets = 0
    /\ NoCall

\* j.Get(p, o)
GetCall(p, o) ==
    LET r == Get(intf, p, o)
    IN  /\ Idle
        /\ op' = "Get"
        /\ opPath' = p
        /\ opArg' = o
        /\ before' = intf
        /\ opErr' = r.err
        /\ dest' = r.out
        /\ opRet' = <<>>
        /\ locator' = NotCalled
        /\ UNCHANGED <<intf, arch, nsets>>

\* j.Set(p, in)
SetCall(p, in) ==
    LET r == Set(intf, p, in)
    IN  /\ Idle
        /\ nsets < MaxSets
        /\ nsets' = nsets + 1
        /\ op' = "Set"
        /\ opPath' = p
        /\ opArg' = in
        /\ before' = intf
        /\ intf' = r.intf
        /\ opErr' = r.err
        /\ locator' = r.f
        /\ dest' = InvalidOut
        /\ opRet' = <<>>
        /\ UNCHANGED arch

\* x holds what j.Get(p, &x) has just written: j.Set(p, x)
SetBack ==
    LET r == Set(intf, opPath, dest)
    IN  /\ op = "Get"
        /\ opArg.how = "ptr"
        /\ opErr = "nil"
        /\ nsets < MaxSets
        /\ nsets' = nsets + 1
        /\ op' = "SetBack"
        /\ opArg' = dest
        /\ before' = intf
        /\ intf' = r.intf
        /\ opErr' = r.err
        /\ locator' = r.f
        /\ opRet' = <<>>
        /\ UNCHANGED <<arch, opPath, dest>>

\* j.Len(p)
LenCall(p) ==
    LET r == LenOf(intf, p)
    IN  /\ Idle
        /\ op' = "Len"
        /\ opPath' = p
        /\ opArg' = <<>>
        /\ before' = intf
        /\ opErr' = r.err
        /\ opRet' = r.n
        /\ dest' = InvalidOut
        /\ locator' = NotCalled
        /\ UNCHANGED <<intf, arch, nsets>>

\* j.Export(indent)
ExportCall(indent) ==
    LET r == Export(intf, indent)
    IN  /\ Idle
        /\ op' = "Export"
        /\ opPath' = <<>>
        /\ opArg' = indent
        /\ before' = intf
        /\ opErr' = r.err
        /\ opRet' = r.bytes
        /\ dest' = InvalidOut
        /\ locator' = NotCalled
        /\ UNCHANGED <<intf, arch, nsets>>

\* The caller goes on after a call that returned; a panic ends the program.
Return ==
    /\ ~Idle
    /\ opErr \notin Panics
    /\ op' = "idle"
    /\ opPath' = <<>>
    /\ opArg' = <<>>
    /\ before' = intf
    /\ opErr' = "nil"
    /\ dest' = InvalidOut
    /\ opRet' = <<>>
    /\ locator' = NotCalled
    /\ UNCHANGED <<intf, arch, nsets>>

DoGet    == \E p \in Paths, o \in Outs : GetCall(p, o)
DoSet    == \E p \in Paths, in \in Ins : SetCall(p, in)
DoLen    == \E p \in Paths : LenCall(p)
DoExport == \E indent \in Indents : ExportCall(indent)

Next == DoGet \/ DoSet \/ SetBack \/ DoLen \/ DoExport \/ Return

Spec == Init /\ [][Next]_vars

-----------------------------------------------------------------------------
(* Claims about the document: paths, Set and the round trip *)

\* A call that resolved its path: Get with a pointer, Set with a non-nil in, Len.
Resolving ==
    \/ op \in {"Get", "Len"}
    \/ op \in {"Set", "SetBack"} /\ opArg.ty.kind # "Interface"

\* C1: no public operation ends in a panic: every call returns success or an
\* error value.
C1_NeverPanics == opErr \notin Panics

\* C2: Get, Set and Len return InvalidPath for each path of the malformed
\* path list ("", ".", "a..b", "a[x]", "a[-1]", "[1]extra"), on every
\* document, and leave the document untouched.
C2_MalformedRejected ==
    (Resolving /\ opPath \in MalformedPaths) =>
        (opErr = "ErrInvalidPath" /\ intf = before)

\* C4: after a Set that returned no error, whatever Dynamic Value the input
\* encodes to (Null included), the read-mode resolution of the same path
\* succeeds and yields exactly that value.
C4_SetThenRead ==
    (op = "Set" /\ opErr = "nil") =>
        LET f == find(intf, opPath, FALSE)
        IN  f.err = "nil" /\ f.val = Encode(opArg).val

\* The steps from the root to the slot a Set writes, when it has located one.
SlotSteps == Append(locator.ref, locator.key)

IsPrefix(s, u) == Len(s) <= Len(u) /\ SubSeq(u, 1, Len(s)) = s

\* old and new differ at most at or below the slot the steps lead to: every
\* other key of every Object and every other element of every Array on the
\* way is the same, and so is the length of every Array on the way.
RECURSIVE SameExcept(_, _, _)
SameExcept(old, new, steps) ==
    IF steps = <<>> THEN TRUE
    ELSE IF steps[1].kind = "String"
    THEN LET k == steps[1].s
         IN  /\ old.t = "Object" /\ new.t = "Object"
             /\ DOMAIN old.m \ {k} = DOMAIN new.m \ {k}
             /\ \A o \in DOMAIN old.m \ {k} : old.m[o] = new.m[o]
             /\ Len(steps) > 1 =>
                    /\ k \in DOMAIN old.m /\ k \in DOMAIN new.m
                    /\ SameExcept(old.m[k], new.m[k], Tail(steps))
    ELSE LET i == steps[1].i + 1
         IN  /\ old.t = "Array" /\ new.t = "Array"
             /\ Len(old.a) = Len(new.a)
             /\ i \in 1..Len(old.a)
             /\ \A o \in (1..Len(old.a)) \ {i} : old.a[o] = new.a[o]
             /\ Len(steps) > 1 => SameExcept(old.a[i], new.a[i], Tail(steps))

\* C5: a Set that returned no error changed nothing of the document but the
\* addressed slot; a Set that did not succeed left the whole document as it was.
C5_SetFrame ==
    (op \in {"Set", "SetBack"}) =>
        IF opErr = "nil" THEN SameExcept(before, intf, SlotSteps)
        ELSE intf = before

\* A Set wrote below the root: the slot lies in a container of the document
\* that is not the root, and the document changed.
C5_Witness ==
    /\ op = "Set" /\ opErr = "nil"
    /\ Len(locator.ref) > 0
    /\ intf # before
    /\ \E k \in DOMAIN before.m : before.m[k] = intf.m[k] /\ before.m[k].t = "Null"

\* The index paths of Paths: pre is the path of the steps before the index
\* step (root: none, the index step is the only one), k the index, p the path.
IndexCases ==
    { [root |-> FALSE, pre |-> <<"a">>, k |-> 0, p |-> <<"a", "[", "0", "]">>],
      [root |-> FALSE, pre |-> <<"a">>, k |-> 1, p |-> <<"a", "[", "1", "]">>],
      [root |-> FALSE, pre |-> <<"a">>, k |-> 2, p |-> <<"a", "[", "2", "]">>],
      [root |-> FALSE, pre |-> <<"a">>, k |-> 12, p |-> <<"a", "[", "1", "2", "]">>],
      [root |-> TRUE, pre |-> <<>>, k |-> 0, p |-> <<"[", "0", "]">>],
      [root |-> TRUE, pre |-> <<>>, k |-> 1, p |-> <<"[", "1", "]">>],
      [root |-> TRUE, pre |-> <<>>, k |-> 2, p |-> <<"[", "2", "]">>],
      [root |-> FALSE, pre |-> <<"[", "1", "]">>, k |-> 0,
       p |-> <<"[", "1", "]", ".", "[", "0", "]">>],
      [root |-> FALSE, pre |-> <<"[", "1", "]">>, k |-> 1,
       p |-> <<"[", "1", "]", ".", "[", "1", "]">>],
      [root |-> FALSE, pre |-> <<"[", "1", "]">>, k |-> 2,
       p |-> <<"[", "1", "]", ".", "[", "2", "]">>] }

\* The value the steps before the index step of c reach in the document j.
Reached(j, c) == IF c.root THEN Found(NoKey, <<>>, j) ELSE find(j, c.pre, FALSE)

\* The index step of c, on the Array it is applied to in j, in both modes.
IndexStepOk(j, c) ==
    LET r  == Reached(j, c)
        rd == find(j, c.p, FALSE)
        wr == find(j, c.p, TRUE)
    IN  (r.err = "nil" /\ r.val.t = "Array") =>
            IF c.k >= Len(r.val.a)
            THEN rd.err = "ErrOutOfRange" /\ wr.err = "ErrOutOfRange"
            ELSE /\ rd.err = "nil" /\ rd.val = r.val.a[c.k + 1]
                 /\ wr.err = "nil" /\ wr.val = r.val /\ wr.key = IntKey(c.k)

\* Every Array of the document before the call that is not at or below the
\* slot written is an Array of the same length after it.
LengthsKept ==
    /\ before.t = "Array" => (intf.t = "Array" /\ Len(intf.a) = Len(before.a))
    /\ \A q \in Paths :
          LET fb == find(before, q, FALSE)
              fa == find(intf, q, FALSE)
          IN  (/\ fb.err = "nil" /\ fb.val.t = "Array"
               /\ ~(opErr = "nil" /\ IsPrefix(SlotSteps, fb.ref)))
              => (fa.err = "nil" /\ fa.val.t = "Array" /\ Len(fa.val.a) = Len(fb.val.a))

WellFormed(f) ==
    \/ f.val.t = "Object" /\ f.key.kind = "String"
    \/ f.val.t = "Array" /\ f.key.kind = "Int" /\ f.key.i >= 0 /\ f.key.i < Len(f.val.a)

\* C9: whenever find(path, true) returns no error it returns an Object with
\* a text key or an Array with an index inside it, so that Set never reaches
\* its "parent value not map or slice" fault.
C9_LocatorInvariant ==
    /\ \A p \in Paths : LET f == find(intf, p, TRUE) IN f.err = "nil" => WellFormed(f)
    /\ (op \in {"Set", "SetBack"} /\ locator.err = "nil") => WellFormed(locator)
    /\ opErr # SetPanic

\* A Set located an index inside an Array that is not the root of the document.
C9_Witness ==
    /\ op = "Set" /\ locator.err = "nil"
    /\ locator.key.kind = "Int" /\ Len(locator.ref) > 0

\* The destination kinds natural for a scalar: bool for a Bool, string for a
\* String, float64 for a Number, a nil-able type for Null.
Natural(x, kind) ==
    \/ x.t = "Bool" /\ kind = "Bool"
    \/ x.t = "String" /\ kind = "String"
    \/ x.t = "Number" /\ kind = "Float64"
    \/ x.t = "Null" /\ kind \in {"Ptr", "Interface"}

\* C8: for a path that resolves to a scalar, Get into a variable of the
\* natural type followed by Set of that variable at the same path return no
\* error, and Export gives the same bytes as before the two calls.
C8_RoundTrip ==
    LET f == find(before, opPath, FALSE)
    IN  /\ (op = "Get" /\ opArg.how = "ptr" /\ f.err = "nil"
            /\ Natural(f.val, opArg.var.ty.kind)) => opErr = "nil"
        /\ (op = "SetBack" /\ f.err = "nil" /\ Natural(f.val, opArg.ty.kind)) =>
               /\ opErr = "nil"
               /\ \A indent \in Indents : Export(intf, indent) = Export(before, indent)

-----------------------------------------------------------------------------
(* Get of one value into destinations of every kind *)

\* The document {"v": x}
VDoc(x) == Object(OneKey(<<"v">>, x))

\* The Numbers read: 0, -0, 3, 3.5, -1, -0.5, and the values at the bounds
\* of the integer types of 8, 16, 32 and 64 bits.
Numbers ==
    { Whole(0), MinusZero, Whole(3), AndHalf(3), Whole(-1), MinusHalf,
      Whole(127), Whole(128), Whole(-128), Whole(-129), Whole(255), Whole(256),
      Whole(32767), Whole(32768), Whole(-32768), Whole(65535), Whole(65536),
      PowTwoLess1(31), PowTwo(31), NegPowTwo(31), PowTwoLess1(32), PowTwo(32),
      PowTwo(53), PowTwoPlus(62, 61), PowTwo(63), NegPowTwo(63),
      PowTwoPlus(63, 11), PowTwo(64), NegPowTwo(64) }

\* {"name":"X","extra":"Y"}
NameExtra ==
    Object([k \in {<<"n", "a", "m", "e">>, <<"e", "x", "t", "r", "a">>} |->
        IF k = <<"n", "a", "m", "e">> THEN String(<<"X">>) ELSE String(<<"Y">>)])

\* {"name":null,"b":true}
NameNull ==
    Object([k \in {<<"n", "a", "m", "e">>, <<"b">>} |->
        IF k = <<"b">> THEN Bool(TRUE) ELSE Null])

\* null, true, "X", [3,null], [3,3.5], [[3]], [], {"name":"X","extra":"Y"},
\* {"Name":"X"}, {"":"X"}, {"name":null,"b":true}, {"name":"X","b":true}, {}
Shapes ==
    { Null, Bool(TRUE), String(<<"X">>),
      Array(<<Number(Whole(3)), Null>>),
      Array(<<Number(Whole(3)), Number(AndHalf(3))>>),
      Array(<<Array(<<Number(Whole(3))>>)>>),
      Array(<<>>),
      NameExtra,
      Object(OneKey(<<"N", "a", "m", "e">>, String(<<"X">>))),
      Object(OneKey(<<>>, String(<<"X">>))),
      NameNull,
      Object([NameNull.m EXCEPT ![<<"n", "a", "m", "e">>] = String(<<"X">>)]),
      Object(<<>>) }

AssignDocs == {VDoc(Number(n)) : n \in Numbers} \cup {VDoc(x) : x \in Shapes}

\* struct { Name string `json:"name"`; B bool `json:"b,omitempty"` }
TTagged ==
    StructOf(<<Field(<<"N", "a", "m", "e">>, <<"n", "a", "m", "e">>, TString),
               Field(<<"B">>, <<"b", ",", "o", "m", "i", "t", "e", "m", "p", "t", "y">>, TBool)>>)

\* struct { name string; Name string }
THidden ==
    StructOf(<<Unexported(<<"n", "a", "m", "e">>, TString),
               Field(<<"N", "a", "m", "e">>, <<>>, TString)>>)

\* The variables Get writes to: one of every numeric kind holding 7, a bool,
\* a string, slices and structs holding their zero value.
AssignVars ==
    {NumVar(k, Whole(7)) : k \in NumKinds} \cup
    { BoolVar(TRUE), StringVar(<<"Z">>),
      Zero(SliceOf(TFloat64)), Zero(SliceOf(TBool)), Zero(SliceOf(SliceOf(TFloat64))),
      Zero(TNameOnly), Zero(TTagged), Zero(THidden),
      Zero(TIface) }

\* Pointers to the variables, and the arguments Get refuses: nil, a
\* variable that is not passed by pointer.
AssignOuts ==
    {OutArg("ptr", x) : x \in AssignVars} \cup
    {OutArg("nil", InvalidOut), OutArg("value", BoolVar(TRUE))}

InitAssign ==
    /\ intf \in AssignDocs
    /\ arch \in Builds
    /\ op = "idle"
    /\ nsets = 0
    /\ NoCall

\* j.Get("v", o)
GetV == \E o \in AssignOuts : GetCall(<<"v">>, o)

NextAssign == GetV \/ Return

SpecAssign == InitAssign /\ [][NextAssign]_vars

-----------------------------------------------------------------------------
(* Claims about the assignment of Get *)

\* Get("v", &x) has returned; the value read and the variable as it was.
GotV == op = "Get" /\ opArg.how = "ptr"
Source == before.m[<<"v">>]

\* The declared serialization name of a field: its json tag up to the comma.
DeclaredName(fld) == Split(fld.tag, ",")[1]

\* The keys of the Object x a field is matched to: by its declared name if
\* it has one, otherwise by its own name whatever the case of the letters.
MatchedKeys(x, fld) ==
    {k \in DOMAIN x.m :
        IF fld.tag # <<>> THEN k = DeclaredName(fld) ELSE EqualFold(k, fld.name)}

\* The value of a String or Bool key read into a field of that type.
FieldHolds(v, x) ==
    \/ x.t = "String" /\ v.ty.kind = "String" /\ v.s = x.s
    \/ x.t = "Bool" /\ v.ty.kind = "Bool" /\ v.b = x.b

\* C3: Get of an Object into a struct matches each settable field to a key
\* by the declared json name of the field if it has one and otherwise by its
\* own name, letters compared without case; a matched field receives the value
\* of its key, every other field keeps its zero value, keys that match no
\* field are ignored, and no error is returned.  {"name":"X","extra":"Y"}
\* read into struct{ Name string } gives Name = "X".
C3_StructMatch ==
    (/\ GotV /\ opArg.var.ty.kind = "Struct" /\ Source.t = "Object"
     /\ \A k \in DOMAIN Source.m : Source.m[k].t \in {"String", "Bool"})
    => /\ opErr = "nil"
       /\ \A i \in 1..Len(dest.ty.fields) :
             LET fld  == dest.ty.fields[i]
                 hits == MatchedKeys(Source, fld)
             IN  IF fld.exported /\ hits # {}
                 THEN \E k \in hits : FieldHolds(dest.items[i], Source.m[k])
                 ELSE dest.items[i] = Zero(fld.ty)

\* Whether the Number n is a value of the integer kind.
Fits(n, kind) ==
    /\ n.bits = <<>> \/ n.bits[1] = 0
    /\ InRange(n.neg /\ n.bits # <<>>, IF n.bits = <<>> THEN <<>> ELSE Tail(n.bits),
               Width(kind), kind \in IntKinds)

\* C6: Get of a Number n into a variable of an integer type succeeds and
\* writes n exactly when n is a whole number inside the range of the type;
\* otherwise it returns Truncate and leaves the variable as it was.
C6_TruncateDetected ==
    (GotV /\ opArg.var.ty.kind \in IntKinds \cup UintKinds /\ Source.t = "Number")
    => IF Fits(Source.n, opArg.var.ty.kind)
       THEN opErr = "nil" /\ NumEq(dest.n, Source.n)
       ELSE opErr = "ErrTruncate" /\ dest = opArg.var

\* The elements of the Array x are Numbers and Nulls, with a Null among them.
NumbersAndNulls(x) ==
    /\ x.t = "Array"
    /\ \A i \in 1..Len(x.a) : x.a[i].t \in {"Number", "Null"}
    /\ \E i \in 1..Len(x.a) : x.a[i].t = "Null"

\* C10: a Null source leaves its destination unmodified and is no error:
\* the value Get's path resolves to, whatever the kind of the variable; a
\* Null element of an Array read into a slice, whose element stays the zero
\* value; a Null value of a key read into a struct field, which keeps its value.
C10_NullSkipped ==
    GotV =>
        /\ Source.t = "Null" => (opErr = "nil" /\ dest = opArg.var)
        /\ (NumbersAndNulls(Source) /\ opArg.var.ty = SliceOf(TFloat64)) =>
              /\ opErr = "nil"
              /\ Len(dest.items) = Len(Source.a)
              /\ \A i \in 1..Len(Source.a) :
                    IF Source.a[i].t = "Null" THEN dest.items[i] = Zero(TFloat64)
                    ELSE NumEq(dest.items[i].n, Source.a[i].n)
        /\ (Source = NameNull /\ opArg.var.ty = TTagged) =>
              /\ opErr = "nil"
              /\ dest.items[1] = opArg.var.items[1]
              /\ dest.items[2].b

=============================================================================
